---- MODULE Spec2Model ----
(***************************************************************************)
(* streamix: a thread-per-connection HTTP server that streams one file     *)
(* with sendfile().  The model follows src/streamix.cpp: main() (startup   *)
(* and the accept loop), handle_client() (one worker thread per accepted   *)
(* connection), send_http_response() and send_file_content().  Every       *)
(* system call is one step; what the kernel answers (success, a partial    *)
(* count, an errno) is chosen by the environment.                          *)
(*                                                                         *)
(* Sizes are scaled: the file has at most MaxFileSize bytes and a chunk is *)
(* SEND_CHUNK_SIZE bytes, so that a transfer needs several chunks and ends *)
(* with a partial one.  A file byte is identified by its offset.           *)
(***************************************************************************)
EXTENDS Integers, Sequences, FiniteSets, TLC

\* ------------------------------------------------------------------ bounds
MaxConns == 2
MaxFileSize == 3

\* --------------------------------------------------------------- constants
\* config::SEND_CHUNK_SIZE (8 MiB in the source), scaled.
SEND_CHUNK_SIZE == 2
\* sizeof(buffer) in handle_client (4096 in the source), scaled.
BUFFER_SIZE == 7
\* std::string_view::npos
npos == -1

Conns == 1..MaxConns

Min(a, b) == IF a < b THEN a ELSE b

\* ------------------------------------------------------------ request bytes
\* A request is the sequence of bytes the peer has put on the connection;
\* "NUL" is the zero byte.
ClientMessages ==
  { <<"G", "E", "T", " ", "/">>,
    <<"G", "E", "T", " ", "/", "a", "b", "c">>,
    <<"H", "E", "A", "D", " ", "/">>,
    <<"P", "O", "S", "T", " ", "/">>,
    <<"G", "E">>,
    <<"H", "E", "A", "D">>,
    <<"NUL", "G", "E", "T", " ">>,
    <<" ", "G", "E", "T", " ">> }

Take(s, n) == SubSeq(s, 1, Min(n, Len(s)))

\* recv(client_fd, buffer, sizeof(buffer) - 1, 0): at most BUFFER_SIZE - 1
\* bytes of what the peer sent.
RecvBytes(msg) == Take(msg, BUFFER_SIZE - 1)

\* std::string_view request(buffer): the bytes up to the first zero byte.
RECURSIVE CStr(_)
CStr(bytes) ==
  IF bytes = <<>> \/ Head(bytes) = "NUL" THEN <<>>
  ELSE <<Head(bytes)>> \o CStr(Tail(bytes))

MatchAt(s, p, i) ==
  /\ i + Len(p) <= Len(s)
  /\ \A k \in 1..Len(p) : s[i + k] = p[k]

\* std::string_view::find: the position of the first occurrence, or npos.
Find(s, p) ==
  LET hits == { i \in 0..Len(s) : MatchAt(s, p, i) }
  IN IF hits = {} THEN npos
     ELSE CHOOSE i \in hits : \A j \in hits : i <= j

GET_PREFIX == <<"G", "E", "T", " ">>
HEAD_PREFIX == <<"H", "E", "A", "D", " ">>

\* bool is_head = (request.find("HEAD ") == 0);
IsHeadNoSpace(bytes) == Find(CStr(bytes), <<"H", "E", "A", "D">>) = 0
IsHead(bytes) == Find(CStr(bytes), HEAD_PREFIX) = 0

\* if (!is_head && request.find("GET ") != 0)
MethodNotAllowedUnlessFound(is_head, bytes) ==
  ~is_head /\ Find(CStr(bytes), GET_PREFIX) = npos
MethodNotAllowed(is_head, bytes) ==
  ~is_head /\ Find(CStr(bytes), GET_PREFIX) # 0

\* Where handle_client goes after recv() returned bytes_read: the early close
\* when bytes_read <= 0, else the 405 branch or the try block's File.
RecvTargetNoEmptyCheck(bytes_read, is_head, bytes) ==
  IF MethodNotAllowed(is_head, bytes) THEN "send405" ELSE "open"
RecvTarget(bytes_read, is_head, bytes) ==
  IF bytes_read <= 0 THEN "close_empty"
  ELSE IF MethodNotAllowed(is_head, bytes) THEN "send405"
  ELSE "open"

\* --------------------------------------------------------------- responses
\* A response is the sequence of its lines (each ends with CRLF on the
\* wire), the blank line included, followed by the body if there is one.
BODY_405 == "405 Method Not Allowed\n"
BODY_500 == "500 Internal Server Error\n"

\* send_http_response builds the block that is handed to send().
BuildResponseLengthAlways(status_code, status_text, headers, body) ==
  <<"HTTP/1.1 " \o ToString(status_code) \o " " \o status_text>>
  \o headers
  \o <<"Content-Length: " \o ToString(Len(body))>>
  \o <<"Connection: close", "">>
  \o (IF body # "" THEN <<body>> ELSE <<>>)
BuildResponse(status_code, status_text, headers, body) ==
  <<"HTTP/1.1 " \o ToString(status_code) \o " " \o status_text>>
  \o headers
  \o (IF body # "" THEN <<"Content-Length: " \o ToString(Len(body))>> ELSE <<>>)
  \o <<"Connection: close", "">>
  \o (IF body # "" THEN <<body>> ELSE <<>>)

\* The headers handle_client builds for the 200 response.
OkHeadersOffByOne(size) ==
  <<"Content-Length: " \o ToString(size + 1),
    "Content-Type: application/octet-stream">>
OkHeaders(size) ==
  <<"Content-Length: " \o ToString(size),
    "Content-Type: application/octet-stream">>

Response200(size) == BuildResponse(200, "OK", OkHeaders(size), "")

Headers405 == <<"Content-Type: text/plain", "Allow: GET, HEAD">>

Response405 == BuildResponse(405, "Method Not Allowed", Headers405, BODY_405)

Response500NoType == BuildResponse(500, "Internal Server Error", <<>>, BODY_500)
Response500 ==
  BuildResponse(500, "Internal Server Error", <<"Content-Type: text/plain">>,
                BODY_500)

\* if (!is_head) send_file_content(client_fd, file);
StreamsBodyAlways(is_head) == TRUE
StreamsBody(is_head) == ~is_head

\* ------------------------------------------------------- send_file_content
\* std::min(remaining, chunk_size): the count asked of sendfile().
ChunkCountWhole(remaining) == SEND_CHUNK_SIZE
ChunkCount(remaining) == Min(remaining, SEND_CHUNK_SIZE)

\* remaining -= sent;
AfterSent(remaining, sent) == remaining - sent

\* What the loop does when sendfile() returned sent <= 0, by errno:
\* "continue" (retry), "return_false", or "break" (then return true).
OnNoProgressEpipeFails(e) ==
  IF e \in {"EAGAIN", "EINTR"} THEN "continue" ELSE "return_false"
OnNoProgressGivesUp(e) ==
  IF e # "EPIPE" THEN "return_false" ELSE "break"
OnNoProgress(e) ==
  IF e \in {"EAGAIN", "EINTR"} THEN "continue"
  ELSE IF e # "EPIPE" THEN "return_false"
  ELSE "break"

\* sendfile(..., &offset, ...) advances the caller's local offset by sent.
AdvanceOffsetShared(off, c, sent) == [d \in DOMAIN off |-> off[c] + sent]
AdvanceOffset(off, c, sent) == [off EXCEPT ![c] = @ + sent]

\* What a retry leaves in remaining (the loop's continue skips remaining -= sent).
AfterRetrySkipsChunk(remaining) == remaining - Min(remaining, SEND_CHUNK_SIZE)
AfterRetry(remaining) == remaining

\* signal(SIGPIPE, SIG_IGN) in main.
SigpipeDisposition == "SIG_IGN"

\* ------------------------------------------------------------------- state
VARIABLES
  env,          \* the run's environment: peers, their messages, faults allowed
  fileLen,      \* current length in bytes of the file at config::FILE_PATH
  mainPc,       \* main(): position of the main thread
  alive,        \* the process is running
  sigpipe,      \* disposition of SIGPIPE
  mainFile,     \* main(): File file opened at startup
  listenFd,     \* the listening socket
  accepted,     \* number of connections accepted so far
  mainCloses,   \* per connection: close() calls made by main()
  pc,           \* per worker: position in handle_client
  request,      \* per worker: bytes recv() stored in buffer
  is_head,      \* per worker: local is_head
  fileObj,      \* per worker: life of File file and of its descriptor fd_
  fileCloses,   \* per worker: close() calls on the per-request file descriptor
  size_,        \* per worker: File::size_
  offset,       \* per worker: send_file_content offset
  remaining,    \* per worker: send_file_content remaining
  errno,        \* per worker thread: errno
  lastCall,     \* per worker: the latest sendfile() call and what it reported
  retried,      \* per worker: some sendfile() call reported EAGAIN or EINTR
  fatal,        \* per worker: first other errno a sendfile() call reported
  sfcCalls,     \* per worker: invocations of send_file_content
  sfcResult,    \* per worker: "none" | "running" | "true" | "false"
  sfcExit,      \* per worker: why the loop ended
  sends,        \* per connection: blocks handed to send(), with the outcome
  wire,         \* per connection: what the connection accepted, in order
  shutdowns,    \* per connection: shutdown(SHUT_RDWR) calls
  connCloses    \* per connection: close() calls made by its worker

mainVars == <<mainPc, alive, sigpipe, mainFile, listenFd, accepted, mainCloses>>
fileVars == <<fileObj, fileCloses, size_>>
sfcVars ==
  <<offset, remaining, lastCall, retried, fatal, sfcCalls, sfcResult, sfcExit>>
connVars == <<sends, wire, shutdowns, connCloses>>
workerVars == <<pc, request, is_head, errno>>
vars == <<env, fileLen, mainVars, workerVars, fileVars, sfcVars, connVars>>

\* --------------------------------------------------------------- scenarios
\* The messages of the peers of a concurrent run.
ConcMessages == { <<"G", "E", "T", " ", "/">> }

\* Either one peer and every outcome of every system call, or MaxConns
\* concurrent peers sending GET, where only sendfile() may report an error
\* (a transient condition or a peer disconnect).
Scenarios ==
  { [clients |-> 1, faults |-> TRUE, messages |-> ClientMessages],
    [clients |-> MaxConns, faults |-> FALSE, messages |-> ConcMessages] }

NoCall == [off |-> 0, count |-> 0, err |-> "NOCALL"]

\* File: "none" (not yet declared), "opening" (open() done, fstat() to come),
\* "constructed", "destroyed" (~File has run), and the two ways the
\* constructor throws: "open_failed", "fstat_failed".
FdIsOpen(state) == state \in {"opening", "constructed"}
FdWasOpened(state) == state \notin {"none", "open_failed"}

Init ==
  /\ env \in Scenarios
  /\ fileLen \in 0..MaxFileSize    \* static: the file does not change while served
  /\ mainPc = "signal"
  /\ alive = TRUE
  /\ sigpipe = "SIG_DFL"
  /\ mainFile = "none"
  /\ listenFd = "none"
  /\ accepted = 0
  /\ mainCloses = [c \in Conns |-> 0]
  /\ pc = [c \in Conns |-> "unborn"]
  /\ request = [c \in Conns |-> <<>>]
  /\ is_head = [c \in Conns |-> FALSE]
  /\ fileObj = [c \in Conns |-> "none"]
  /\ fileCloses = [c \in Conns |-> 0]
  /\ size_ = [c \in Conns |-> 0]
  /\ offset = [c \in Conns |-> 0]
  /\ remaining = [c \in Conns |-> 0]
  /\ errno = [c \in Conns |-> "NONE"]
  /\ lastCall = [c \in Conns |-> NoCall]
  /\ retried = [c \in Conns |-> FALSE]
  /\ fatal = [c \in Conns |-> "NONE"]
  /\ sfcCalls = [c \in Conns |-> 0]
  /\ sfcResult = [c \in Conns |-> "none"]
  /\ sfcExit = [c \in Conns |-> "none"]
  /\ sends = [c \in Conns |-> <<>>]
  /\ wire = [c \in Conns |-> <<>>]
  /\ shutdowns = [c \in Conns |-> 0]
  /\ connCloses = [c \in Conns |-> 0]

\* -------------------------------------------------------------------- main
\* An exception leaves main() through handle_error(e.what()) in its catch
\* block, which throws again: the process terminates, every thread with it.
Terminate ==
  /\ mainPc' = "aborted"
  /\ alive' = FALSE

\* signal(SIGPIPE, SIG_IGN);
MainSignal ==
  /\ alive /\ mainPc = "signal"
  /\ sigpipe' = SigpipeDisposition
  /\ mainPc' = "open_file"
  /\ UNCHANGED <<env, fileLen, alive, mainFile, listenFd, accepted, mainCloses,
                 workerVars, fileVars, sfcVars, connVars>>

\* File file(config::FILE_PATH.data()); open() and fstat() at startup.
MainOpenFileLenient ==
  /\ alive /\ mainPc = "open_file"
  /\ \/ /\ mainFile' = "open"
     \/ /\ env.faults
        /\ UNCHANGED mainFile
  /\ mainPc' = "socket"
  /\ UNCHANGED <<env, fileLen, alive, sigpipe, listenFd, accepted, mainCloses,
                 workerVars, fileVars, sfcVars, connVars>>
MainOpenFile ==
  /\ alive /\ mainPc = "open_file"
  /\ \/ /\ mainFile' = "open"
        /\ mainPc' = "socket"
        /\ UNCHANGED alive
     \/ /\ env.faults
        /\ Terminate
        /\ UNCHANGED mainFile
  /\ UNCHANGED <<env, fileLen, sigpipe, listenFd, accepted, mainCloses,
                 workerVars, fileVars, sfcVars, connVars>>

\* create_server_socket(): socket(), setsockopt(), bind(), listen(); a
\* failure after socket() unwinds through ~Socket, which closes the socket.
MainSocket ==
  /\ alive /\ mainPc = "socket"
  /\ \/ /\ listenFd' = "created"
        /\ mainPc' = "bind"
        /\ UNCHANGED alive
     \/ /\ env.faults
        /\ Terminate
        /\ UNCHANGED listenFd
  /\ UNCHANGED <<env, fileLen, sigpipe, mainFile, accepted, mainCloses,
                 workerVars, fileVars, sfcVars, connVars>>

MainBind ==
  /\ alive /\ mainPc = "bind"
  /\ \/ /\ listenFd' = "bound"
        /\ mainPc' = "listen"
        /\ UNCHANGED alive
     \/ /\ env.faults
        /\ listenFd' = "closed"
        /\ Terminate
  /\ UNCHANGED <<env, fileLen, sigpipe, mainFile, accepted, mainCloses,
                 workerVars, fileVars, sfcVars, connVars>>

MainListen ==
  /\ alive /\ mainPc = "listen"
  /\ \/ /\ listenFd' = "listening"
        /\ mainPc' = "accept"
        /\ UNCHANGED alive
     \/ /\ env.faults
        /\ listenFd' = "closed"
        /\ Terminate
  /\ UNCHANGED <<env, fileLen, sigpipe, mainFile, accepted, mainCloses,
                 workerVars, fileVars, sfcVars, connVars>>

\* ClientInfo client = server_socket.accept(); a failure throws.
MainAccept ==
  /\ alive /\ mainPc = "accept"
  /\ \/ /\ accepted < env.clients
        /\ accepted' = accepted + 1
        /\ mainPc' = "create"
        /\ UNCHANGED <<alive, listenFd>>
     \/ /\ env.faults
        /\ listenFd' = "closed"
        /\ Terminate
        /\ UNCHANGED accepted
  /\ UNCHANGED <<env, fileLen, sigpipe, mainFile, mainCloses,
                 workerVars, fileVars, sfcVars, connVars>>

\* pthread_create(&thread, NULL, handle_client, client_fd.release()); on
\* failure main closes client.fd and throws.
MainCreateNoClose ==
  /\ alive /\ mainPc = "create"
  /\ \/ /\ pc' = [pc EXCEPT ![accepted] = "recv"]
        /\ mainPc' = "detach"
        /\ UNCHANGED <<alive, listenFd>>
     \/ /\ env.faults
        /\ listenFd' = "closed"
        /\ Terminate
        /\ UNCHANGED pc
  /\ UNCHANGED <<env, fileLen, sigpipe, mainFile, accepted, mainCloses,
                 request, is_head, errno, fileVars, sfcVars, connVars>>
MainCreate ==
  /\ alive /\ mainPc = "create"
  /\ \/ /\ pc' = [pc EXCEPT ![accepted] = "recv"]
        /\ mainPc' = "detach"
        /\ UNCHANGED <<alive, listenFd, mainCloses>>
     \/ /\ env.faults
        /\ mainCloses' = [mainCloses EXCEPT ![accepted] = @ + 1]
        /\ listenFd' = "closed"
        /\ Terminate
        /\ UNCHANGED pc
  /\ UNCHANGED <<env, fileLen, sigpipe, mainFile, accepted,
                 request, is_head, errno, fileVars, sfcVars, connVars>>

\* pthread_detach(thread); a failure is only reported.
MainDetachJoins ==
  /\ alive /\ mainPc = "detach"
  /\ pc[accepted] = "done"
  /\ mainPc' = "accept"
  /\ UNCHANGED <<env, fileLen, alive, sigpipe, mainFile, listenFd, accepted,
                 mainCloses, workerVars, fileVars, sfcVars, connVars>>
MainDetach ==
  /\ alive /\ mainPc = "detach"
  /\ mainPc' = "accept"
  /\ UNCHANGED <<env, fileLen, alive, sigpipe, mainFile, listenFd, accepted,
                 mainCloses, workerVars, fileVars, sfcVars, connVars>>

\* ---------------------------------------------------------- handle_client
\* What was put on the wire of a connection: a response block (whole, or a
\* proper part of it when send() accepted less), or one byte of the file.
RespItem(resp, amt) == [k |-> "resp", resp |-> resp, amt |-> amt, off |-> -1]
ByteItem(i) == [k |-> "byte", resp |-> <<>>, amt |-> "all", off |-> i]

\* The file bytes at offsets from..(from + n - 1), in order.
RECURSIVE FileBytes(_, _)
FileBytes(from, n) ==
  IF n <= 0 THEN <<>> ELSE <<ByteItem(from)>> \o FileBytes(from + 1, n - 1)

\* errno values send() may leave.
SendErrnos == {"EPIPE", "EAGAIN", "EIO"}
\* errno values sendfile() may leave.
SendfileErrnos ==
  IF env.faults THEN {"EAGAIN", "EINTR", "EPIPE", "EIO"} ELSE {"EAGAIN", "EPIPE"}

\* send_http_response: one send(..., MSG_NOSIGNAL) of the whole block; the
\* result is only reported, never returned to the caller.
SendHttpResponse(c, resp) ==
  \/ /\ sends' = [sends EXCEPT ![c] = Append(@, [resp |-> resp, result |-> "all"])]
     /\ wire' = [wire EXCEPT ![c] = Append(@, RespItem(resp, "all"))]
     /\ UNCHANGED errno
  \/ /\ env.faults
     /\ sends' = [sends EXCEPT ![c] = Append(@, [resp |-> resp, result |-> "part"])]
     /\ wire' = [wire EXCEPT ![c] = Append(@, RespItem(resp, "part"))]
     /\ UNCHANGED errno
  \/ /\ env.faults
     /\ \E e \in SendErrnos : errno' = [errno EXCEPT ![c] = e]
     /\ sends' = [sends EXCEPT ![c] = Append(@, [resp |-> resp, result |-> "fail"])]
     /\ UNCHANGED wire

\* ~File(): if (fd_ >= 0) close(fd_);
DtorClosesNever(state) == FALSE
DtorCloses(state) == FdIsOpen(state)

\* return NULL: the thread ends, and with it its errno and the locals of the
\* calls it made.
ThreadExit(c) ==
  /\ pc' = [pc EXCEPT ![c] = "done"]
  /\ errno' = [errno EXCEPT ![c] = "NONE"]
  /\ offset' = [offset EXCEPT ![c] = 0]
  /\ remaining' = [remaining EXCEPT ![c] = 0]
  /\ lastCall' = [lastCall EXCEPT ![c] = NoCall]

\* ssize_t bytes_read = recv(...); if (bytes_read <= 0) -> close and return;
\* otherwise the method check on the received bytes.
Recv(c) ==
  /\ alive /\ pc[c] = "recv"
  /\ \/ \E msg \in env.messages :
          LET bytes == RecvBytes(msg)
              head == IsHead(bytes)
          IN /\ request' = [request EXCEPT ![c] = bytes]
             /\ is_head' = [is_head EXCEPT ![c] = head]
             /\ pc' = [pc EXCEPT ![c] = RecvTarget(Len(bytes), head, bytes)]
             /\ UNCHANGED errno
     \/ /\ env.faults
        /\ \E bytes_read \in {-1, 0} :
             /\ errno' = [errno EXCEPT ![c] = IF bytes_read = 0 THEN @ ELSE "EIO"]
             /\ pc' = [pc EXCEPT ![c] = RecvTarget(bytes_read, FALSE, <<>>)]
        /\ UNCHANGED <<request, is_head>>
  /\ UNCHANGED <<env, fileLen, mainVars, fileVars, sfcVars, connVars>>

\* close(client_fd); return NULL;   (bytes_read <= 0)
CloseEmpty(c) ==
  /\ alive /\ pc[c] = "close_empty"
  /\ connCloses' = [connCloses EXCEPT ![c] = @ + 1]
  /\ ThreadExit(c)
  /\ UNCHANGED <<env, fileLen, mainVars, request, is_head, fileVars,
                 retried, fatal, sfcCalls, sfcResult, sfcExit, sends, wire,
                 shutdowns>>

\* send_http_response(client_fd, 405, ...)
Send405(c) ==
  /\ alive /\ pc[c] = "send405"
  /\ SendHttpResponse(c, Response405)
  /\ pc' = [pc EXCEPT ![c] = "shutdown405"]
  /\ UNCHANGED <<env, fileLen, mainVars, request, is_head, fileVars, sfcVars,
                 shutdowns, connCloses>>

\* shutdown(client_fd, SHUT_RDWR);   (method not allowed)
Shutdown405Skipped(c) ==
  /\ alive /\ pc[c] = "shutdown405"
  /\ pc' = [pc EXCEPT ![c] = "close405"]
  /\ UNCHANGED <<env, fileLen, mainVars, request, is_head, errno, fileVars,
                 sfcVars, connVars>>
Shutdown405(c) ==
  /\ alive /\ pc[c] = "shutdown405"
  /\ shutdowns' = [shutdowns EXCEPT ![c] = @ + 1]
  /\ pc' = [pc EXCEPT ![c] = "close405"]
  /\ UNCHANGED <<env, fileLen, mainVars, request, is_head, errno, fileVars,
                 sfcVars, sends, wire, connCloses>>

\* close(client_fd); return NULL;   (method not allowed)
Close405(c) ==
  /\ alive /\ pc[c] = "close405"
  /\ connCloses' = [connCloses EXCEPT ![c] = @ + 1]
  /\ ThreadExit(c)
  /\ UNCHANGED <<env, fileLen, mainVars, request, is_head, fileVars,
                 retried, fatal, sfcCalls, sfcResult, sfcExit, sends, wire,
                 shutdowns>>

\* File file(config::FILE_PATH.data()): fd_ = open(path, O_RDONLY); a
\* failure throws, and handle_client catches it.
OpenFile(c) ==
  /\ alive /\ pc[c] = "open"
  /\ \/ /\ fileObj' = [fileObj EXCEPT ![c] = "opening"]
        /\ pc' = [pc EXCEPT ![c] = "fstat"]
        /\ UNCHANGED errno
     \/ /\ env.faults
        /\ fileObj' = [fileObj EXCEPT ![c] = "open_failed"]
        /\ errno' = [errno EXCEPT ![c] = "ENOENT"]
        /\ pc' = [pc EXCEPT ![c] = "send500"]
  /\ UNCHANGED <<env, fileLen, mainVars, request, is_head, fileCloses, size_,
                 sfcVars, connVars>>

\* fstat(fd_, &st): size_ = st.st_size; a failure closes fd_ and throws.
FstatFile(c) ==
  /\ alive /\ pc[c] = "fstat"
  /\ \/ /\ size_' = [size_ EXCEPT ![c] = fileLen]
        /\ fileObj' = [fileObj EXCEPT ![c] = "constructed"]
        /\ pc' = [pc EXCEPT ![c] = "send200"]
        /\ UNCHANGED <<errno, fileCloses>>
     \/ /\ env.faults
        /\ fileCloses' = [fileCloses EXCEPT ![c] = @ + 1]
        /\ fileObj' = [fileObj EXCEPT ![c] = "fstat_failed"]
        /\ errno' = [errno EXCEPT ![c] = "EIO"]
        /\ pc' = [pc EXCEPT ![c] = "send500"]
        /\ UNCHANGED size_
  /\ UNCHANGED <<env, fileLen, mainVars, request, is_head, sfcVars, connVars>>

\* send_http_response(client_fd, 200, "OK", headers, ""); then, unless the
\* request is HEAD, send_file_content is entered: offset = 0, remaining =
\* file.size(), and the loop condition is evaluated.
Send200(c) ==
  /\ alive /\ pc[c] = "send200"
  /\ SendHttpResponse(c, Response200(size_[c]))
  /\ IF StreamsBody(is_head[c])
     THEN /\ sfcCalls' = [sfcCalls EXCEPT ![c] = @ + 1]
          /\ offset' = [offset EXCEPT ![c] = 0]
          /\ remaining' = [remaining EXCEPT ![c] = size_[c]]
          /\ IF size_[c] > 0
             THEN /\ pc' = [pc EXCEPT ![c] = "sendfile"]
                  /\ sfcResult' = [sfcResult EXCEPT ![c] = "running"]
                  /\ UNCHANGED sfcExit
             ELSE /\ pc' = [pc EXCEPT ![c] = "file_dtor"]
                  /\ sfcResult' = [sfcResult EXCEPT ![c] = "true"]
                  /\ sfcExit' = [sfcExit EXCEPT ![c] = "drained"]
     ELSE /\ pc' = [pc EXCEPT ![c] = "file_dtor"]
          /\ UNCHANGED <<sfcCalls, offset, remaining, sfcResult, sfcExit>>
  /\ UNCHANGED <<env, fileLen, mainVars, request, is_head, fileVars, lastCall,
                 retried, fatal, shutdowns, connCloses>>

\* sendfile(client_fd, file.fd(), &offset, min(remaining, chunk_size))
\* returned sent > 0: the kernel has advanced offset by sent; remaining -=
\* sent; the loop condition is evaluated.
SendfileOk(c) ==
  /\ alive /\ pc[c] = "sendfile"
  /\ LET count == ChunkCount(remaining[c])
         avail == fileLen - offset[c]
     IN \E sent \in 1..Min(count, avail) :
          LET rem == AfterSent(remaining[c], sent)
          IN /\ lastCall' = [lastCall EXCEPT ![c] =
                               [off |-> offset[c], count |-> count, err |-> "NONE"]]
             /\ wire' = [wire EXCEPT ![c] = @ \o FileBytes(offset[c], sent)]
             /\ offset' = AdvanceOffset(offset, c, sent)
             /\ remaining' = [remaining EXCEPT ![c] = rem]
             /\ IF rem > 0
                THEN UNCHANGED <<pc, sfcResult, sfcExit>>
                ELSE /\ pc' = [pc EXCEPT ![c] = "file_dtor"]
                     /\ sfcResult' = [sfcResult EXCEPT ![c] = "true"]
                     /\ sfcExit' = [sfcExit EXCEPT ![c] = "drained"]
  /\ UNCHANGED <<env, fileLen, mainVars, request, is_head, errno, fileVars,
                 retried, fatal, sfcCalls, sends, shutdowns, connCloses>>

\* sendfile() returned -1 with errno e: retry, return false, or break.  A
\* write to a connection the peer has closed raises SIGPIPE, which ends the
\* process unless the signal is ignored.
SendfileErr(c) ==
  /\ alive /\ pc[c] = "sendfile"
  /\ \E e \in SendfileErrnos :
       /\ errno' = [errno EXCEPT ![c] = e]
       /\ lastCall' = [lastCall EXCEPT ![c] =
                         [off |-> offset[c], count |-> ChunkCount(remaining[c]),
                          err |-> e]]
       /\ retried' = [retried EXCEPT ![c] = @ \/ e \in {"EAGAIN", "EINTR"}]
       /\ fatal' = [fatal EXCEPT ![c] =
                      IF @ = "NONE" /\ e \notin {"EAGAIN", "EINTR"} THEN e ELSE @]
       /\ alive' = (e = "EPIPE" => sigpipe = "SIG_IGN")
       /\ CASE OnNoProgress(e) = "continue" ->
                 LET rem == AfterRetry(remaining[c])
                 IN /\ remaining' = [remaining EXCEPT ![c] = rem]
                    /\ IF rem > 0
                       THEN UNCHANGED <<pc, sfcResult, sfcExit>>
                       ELSE /\ pc' = [pc EXCEPT ![c] = "file_dtor"]
                            /\ sfcResult' = [sfcResult EXCEPT ![c] = "true"]
                            /\ sfcExit' = [sfcExit EXCEPT ![c] = "drained"]
            [] OnNoProgress(e) = "return_false" ->
                 /\ pc' = [pc EXCEPT ![c] = "file_dtor"]
                 /\ sfcResult' = [sfcResult EXCEPT ![c] = "false"]
                 /\ sfcExit' = [sfcExit EXCEPT ![c] = "error"]
                 /\ UNCHANGED remaining
            [] OnNoProgress(e) = "break" ->
                 /\ pc' = [pc EXCEPT ![c] = "file_dtor"]
                 /\ sfcResult' = [sfcResult EXCEPT ![c] = "true"]
                 /\ sfcExit' = [sfcExit EXCEPT ![c] = "epipe"]
                 /\ UNCHANGED remaining
  /\ UNCHANGED <<env, fileLen, mainPc, sigpipe, mainFile, listenFd, accepted,
                 mainCloses, request, is_head, fileVars, offset, sfcCalls,
                 connVars>>

\* ~File() at the end of the try block: if (fd_ >= 0) close(fd_);
FileDtorRaises(c) ==
  /\ alive /\ pc[c] = "file_dtor"
  /\ fileObj' = [fileObj EXCEPT ![c] = "destroyed"]
  /\ fileCloses' = [fileCloses EXCEPT ![c] =
                      IF DtorCloses(fileObj[c]) THEN @ + 1 ELSE @]
  /\ pc' = [pc EXCEPT ![c] =
              IF sfcResult[c] = "false" THEN "send500" ELSE "shutdown"]
  /\ UNCHANGED <<env, fileLen, mainVars, request, is_head, errno, size_,
                 sfcVars, connVars>>
FileDtor(c) ==
  /\ alive /\ pc[c] = "file_dtor"
  /\ fileObj' = [fileObj EXCEPT ![c] = "destroyed"]
  /\ fileCloses' = [fileCloses EXCEPT ![c] =
                      IF DtorCloses(fileObj[c]) THEN @ + 1 ELSE @]
  /\ pc' = [pc EXCEPT ![c] = "shutdown"]
  /\ UNCHANGED <<env, fileLen, mainVars, request, is_head, errno, size_,
                 sfcVars, connVars>>

\* catch (const std::exception &e): send_http_response(client_fd, 500, ...)
Send500(c) ==
  /\ alive /\ pc[c] = "send500"
  /\ SendHttpResponse(c, Response500)
  /\ pc' = [pc EXCEPT ![c] = "shutdown"]
  /\ UNCHANGED <<env, fileLen, mainVars, request, is_head, fileVars, sfcVars,
                 shutdowns, connCloses>>

\* shutdown(client_fd, SHUT_RDWR);   (after the try block)
Shutdown(c) ==
  /\ alive /\ pc[c] = "shutdown"
  /\ shutdowns' = [shutdowns EXCEPT ![c] = @ + 1]
  /\ pc' = [pc EXCEPT ![c] = "close"]
  /\ UNCHANGED <<env, fileLen, mainVars, request, is_head, errno, fileVars,
                 sfcVars, sends, wire, connCloses>>

\* close(client_fd); return NULL;   (after the try block)
Close(c) ==
  /\ alive /\ pc[c] = "close"
  /\ connCloses' = [connCloses EXCEPT ![c] = @ + 1]
  /\ ThreadExit(c)
  /\ UNCHANGED <<env, fileLen, mainVars, request, is_head, fileVars,
                 retried, fatal, sfcCalls, sfcResult, sfcExit, sends, wire,
                 shutdowns>>

\* ----------------------------------------------------------- specification
Worker(c) ==
  \/ Recv(c)
  \/ CloseEmpty(c)
  \/ Send405(c)
  \/ Shutdown405(c)
  \/ Close405(c)
  \/ OpenFile(c)
  \/ FstatFile(c)
  \/ Send200(c)
  \/ SendfileOk(c)
  \/ SendfileErr(c)
  \/ FileDtor(c)
  \/ Send500(c)
  \/ Shutdown(c)
  \/ Close(c)

Main ==
  \/ MainSignal
  \/ MainOpenFile
  \/ MainSocket
  \/ MainBind
  \/ MainListen
  \/ MainAccept
  \/ MainCreate
  \/ MainDetach

Next == Main \/ \E c \in Conns : Worker(c)

Spec == Init /\ [][Next]_vars

\* One peer; every worker thread that can take a step eventually takes one.
\* Nothing is assumed of what the system calls answer.
SoloInit == Init /\ env.clients = 1
FairSpec ==
  SoloInit /\ [][Next]_vars /\ \A c \in Conns : WF_vars(Worker(c))

\* The file at config::FILE_PATH is shortened by another process while it is
\* served; File::size_ keeps the size fstat() reported at open.
Truncate ==
  /\ alive
  /\ \E n \in 0..(fileLen - 1) : fileLen' = n
  /\ UNCHANGED <<env, mainVars, workerVars, fileVars, sfcVars, connVars>>

\* sendfile() at or past the end of the file: it returns 0 and does not set
\* errno, and the loop's if (sent <= 0) branch reads the errno an earlier
\* call on this thread left.
SendfileEof(c) ==
  /\ alive /\ pc[c] = "sendfile"
  /\ fileLen - offset[c] <= 0
  /\ lastCall' = [lastCall EXCEPT ![c] =
                    [off |-> offset[c], count |-> ChunkCount(remaining[c]),
                     err |-> "EOF"]]
  /\ CASE OnNoProgress(errno[c]) = "continue" ->
            UNCHANGED <<pc, sfcResult, sfcExit>>
       [] OnNoProgress(errno[c]) = "return_false" ->
            /\ pc' = [pc EXCEPT ![c] = "file_dtor"]
            /\ sfcResult' = [sfcResult EXCEPT ![c] = "false"]
            /\ sfcExit' = [sfcExit EXCEPT ![c] = "error"]
       [] OnNoProgress(errno[c]) = "break" ->
            /\ pc' = [pc EXCEPT ![c] = "file_dtor"]
            /\ sfcResult' = [sfcResult EXCEPT ![c] = "true"]
            /\ sfcExit' = [sfcExit EXCEPT ![c] = "epipe"]
  /\ UNCHANGED <<env, fileLen, mainVars, request, is_head, errno, fileVars,
                 offset, remaining, retried, fatal, sfcCalls, connVars>>

NextTrunc ==
  \/ Next
  \/ Truncate
  \/ \E c \in Conns : SendfileEof(c)

\* One peer, and a file that may shrink while it is served.
TruncSpec == SoloInit /\ [][NextTrunc]_vars

\* The main thread is scheduled whenever it can take a step; nothing is
\* assumed of the workers, each of which may stay blocked in a call for ever.
AcceptorFairSpec == Init /\ [][Next]_vars /\ WF_vars(Main)

\* ------------------------------------------------------------ observation
\* The received bytes begin with the bytes p.
StartsWith(bytes, p) ==
  /\ Len(bytes) >= Len(p)
  /\ \A k \in 1..Len(p) : bytes[k] = p[k]

IsGetRequest(c) == StartsWith(request[c], <<"G", "E", "T", " ">>)
IsHeadRequest(c) == StartsWith(request[c], <<"H", "E", "A", "D", " ">>)

\* The offsets of the file bytes a connection accepted, in wire order.
BodyOffsets(c) ==
  LET bytes == SelectSeq(wire[c], LAMBDA it : it.k = "byte")
  IN [i \in 1..Len(bytes) |-> bytes[i].off]

\* The offsets 0..n-1 in order.
Iota(n) == [i \in 1..n |-> i - 1]

\* On the wire every file byte comes after everything else.
BodyLast(c) ==
  \A i, j \in 1..Len(wire[c]) :
    (wire[c][i].k = "byte" /\ wire[c][j].k # "byte") => j < i

\* The 200 response as it must stand on the wire for a file of n bytes.
Golden200(n) ==
  <<"HTTP/1.1 200 OK",
    "Content-Length: " \o ToString(n),
    "Content-Type: application/octet-stream",
    "Connection: close",
    "">>

Golden405 ==
  <<"HTTP/1.1 405 Method Not Allowed",
    "Content-Type: text/plain",
    "Allow: GET, HEAD",
    "Content-Length: 23",
    "Connection: close",
    "",
    "405 Method Not Allowed\n">>

Golden500 ==
  <<"HTTP/1.1 500 Internal Server Error",
    "Content-Type: text/plain",
    "Content-Length: 26",
    "Connection: close",
    "",
    "500 Internal Server Error\n">>

ContentLengths(resp) ==
  { i \in 1..Len(resp) : \E n \in 0..(MaxFileSize + 30) :
      resp[i] = "Content-Length: " \o ToString(n) }

\* The per-request File was constructed: open() and fstat() succeeded.
Opened(c) == fileObj[c] \in {"constructed", "destroyed"}

\* ------------------------------------------------------------------ claims

\* C1: a GET whose file was opened with size N, and whose transfer attempts
\* reported neither a peer disconnect nor another non-transient error, has
\* at the end of handle_client handed exactly one response to send(), a 200
\* OK whose only Content-Length line carries N, and the connection has then
\* accepted exactly the file bytes 0..N-1, in order, each once, after which
\* it was closed.
C1_GetDeliversWholeFile ==
  \A c \in Conns :
    (pc[c] = "done" /\ IsGetRequest(c) /\ Opened(c) /\ fatal[c] = "NONE") =>
      /\ size_[c] = fileLen
      /\ Len(sends[c]) = 1
      /\ sends[c][1].resp[1] = "HTTP/1.1 200 OK"
      /\ \E i \in 1..Len(sends[c][1].resp) :
           /\ sends[c][1].resp[i] = "Content-Length: " \o ToString(size_[c])
           /\ ContentLengths(sends[c][1].resp) = {i}
      /\ sfcCalls[c] = 1
      /\ sfcResult[c] = "true"
      /\ BodyOffsets(c) = Iota(size_[c])
      /\ BodyLast(c)
      /\ connCloses[c] = 1

C1_Witness ==
  \E c \in Conns :
    /\ pc[c] = "done" /\ IsGetRequest(c) /\ Opened(c) /\ fatal[c] = "NONE"
    /\ size_[c] = MaxFileSize
    /\ retried[c]
    /\ sends[c][1].result = "all"
    /\ BodyOffsets(c) = Iota(MaxFileSize)

\* C2: a HEAD whose file was opened gets the status line and header lines a
\* GET gets for the same file (the block both hand to send() is the 200
\* response with Content-Length N), send_file_content is never invoked for
\* it, and the connection accepts no file byte.
C2_HeadSameHeadersNoBody ==
  \A c \in Conns :
    /\ (pc[c] = "done" /\ Opened(c) /\ (IsHeadRequest(c) \/ IsGetRequest(c))) =>
         /\ Len(sends[c]) = 1
         /\ sends[c][1].resp = Golden200(fileLen)
    /\ IsHeadRequest(c) =>
         /\ sfcCalls[c] = 0
         /\ sfcResult[c] = "none"
         /\ BodyOffsets(c) = <<>>
         /\ pc[c] # "sendfile"

C2_Witness ==
  \E c \in Conns :
    /\ pc[c] = "done" /\ IsHeadRequest(c) /\ Opened(c)
    /\ fileLen = MaxFileSize
    /\ sends[c] = <<[resp |-> Golden200(MaxFileSize), result |-> "all"]>>
    /\ Len(wire[c]) = 1

\* C3: a non-empty request that starts with neither "GET " nor "HEAD " is
\* answered with the 405 response (Allow: GET, HEAD, body "405 Method Not
\* Allowed\n"); the file is never opened for it, send_file_content is never
\* invoked and no file byte is sent.
C3_UnsupportedGets405 ==
  \A c \in Conns :
    (request[c] # <<>> /\ ~IsGetRequest(c) /\ ~IsHeadRequest(c)) =>
      /\ pc[c] \in {"send405", "shutdown405", "close405", "done"}
      /\ fileObj[c] = "none"
      /\ fileCloses[c] = 0
      /\ sfcCalls[c] = 0
      /\ BodyOffsets(c) = <<>>
      /\ pc[c] # "send405" =>
           /\ Len(sends[c]) = 1
           /\ sends[c][1].resp = Golden405

C3_Witness ==
  \E c \in Conns :
    /\ pc[c] = "done"
    /\ request[c] = <<"H", "E", "A", "D">>
    /\ wire[c] = <<RespItem(Golden405, "all")>>

\* C4: on every path through handle_client the connection descriptor is
\* closed exactly once, and the per-request file descriptor, if open()
\* returned one, is closed exactly once: neither is ever closed twice, and
\* neither is left open when handle_client returns.
C4_ExactlyOneClose ==
  \A c \in Conns :
    /\ connCloses[c] <= 1
    /\ fileCloses[c] <= 1
    /\ (fileCloses[c] = 1) => FdWasOpened(fileObj[c]) /\ ~FdIsOpen(fileObj[c])
    /\ pc[c] = "done" =>
         /\ connCloses[c] = 1
         /\ ~FdIsOpen(fileObj[c])
         /\ fileCloses[c] = (IF FdWasOpened(fileObj[c]) THEN 1 ELSE 0)

C4_Witness ==
  \E c \in Conns :
    /\ pc[c] = "done"
    /\ fileObj[c] = "destroyed"
    /\ sfcResult[c] = "false"
    /\ connCloses[c] = 1
    /\ fileCloses[c] = 1

\* Everything handle_client and the calls it makes hold for connection c.
LocalState(c) ==
  <<pc[c], request[c], is_head[c], errno[c], fileObj[c], fileCloses[c],
    size_[c], offset[c], remaining[c], lastCall[c], retried[c], fatal[c],
    sfcCalls[c], sfcResult[c], sfcExit[c], sends[c], wire[c], shutdowns[c],
    connCloses[c]>>

\* C5: with several GET connections served by concurrent workers, under
\* every interleaving no step changes the state (offset, remaining, file
\* descriptor, bytes delivered, ...) of more than one connection, the bytes
\* a connection has accepted are at every moment the file bytes 0..k-1 in
\* order, and a transfer that ran to the end delivered exactly the N bytes.
C5_ConcurrentTransfers ==
  /\ [](\A c \in Conns :
          LET body == BodyOffsets(c)
          IN /\ body = Iota(Len(body))
             /\ pc[c] = "sendfile" => Len(body) = offset[c]
             /\ (IsGetRequest(c) /\ sfcExit[c] = "drained") => Len(body) = fileLen)
  /\ [][Cardinality({c \in Conns : LocalState(c)' # LocalState(c)}) <= 1]_vars

C5_Witness ==
  \E c, d \in Conns :
    /\ c # d
    /\ fileLen = MaxFileSize
    /\ pc[c] = "sendfile" /\ offset[c] = 1
    /\ pc[d] = "sendfile" /\ offset[d] = 2
    /\ BodyOffsets(c) = <<0>>
    /\ BodyOffsets(d) = <<0, 1>>

\* C6: when a sendfile() call reports EPIPE the process stays alive, the
\* loop is left in that very step with send_file_content returning true, no
\* further byte is transferred and no further sendfile() call is made, and
\* the worker closes the connection exactly once.
C6_PeerDisconnectStops ==
  /\ [](\A c \in Conns :
          fatal[c] = "EPIPE" =>
            /\ pc[c] \in {"file_dtor", "shutdown", "close", "done"}
            /\ sfcResult[c] = "true"
            /\ sfcExit[c] = "epipe"
            /\ connCloses[c] = (IF pc[c] = "done" THEN 1 ELSE 0))
  /\ [][\A c \in Conns :
          /\ (fatal[c] = "NONE" /\ fatal'[c] = "EPIPE") =>
               /\ alive'
               /\ pc'[c] = "file_dtor"
               /\ sfcResult'[c] = "true"
               /\ wire'[c] = wire[c]
          /\ fatal[c] = "EPIPE" =>
               /\ wire'[c] = wire[c]
               /\ lastCall'[c] = lastCall[c] \/ pc'[c] = "done"]_vars

C6_Witness ==
  \E c \in Conns :
    /\ fatal[c] = "EPIPE"
    /\ pc[c] = "done"
    /\ alive
    /\ sfcResult[c] = "true"
    /\ Len(BodyOffsets(c)) = 1
    /\ size_[c] = MaxFileSize
    /\ connCloses[c] = 1

\* C7: a sendfile() call that reports EAGAIN or EINTR changes neither offset
\* nor remaining nor the bytes delivered and leaves the worker in the loop;
\* the call that follows it asks for the same offset and the same count;
\* and however transient failures and successful calls interleave, the
\* bytes delivered are 0..k-1 without repeat or gap, all N of them once
\* remaining has reached zero.
C7_TransientRetry ==
  /\ [][\A c \in Conns :
          /\ (pc[c] = "sendfile" /\ lastCall'[c].err \in {"EAGAIN", "EINTR"}) =>
               /\ offset'[c] = offset[c]
               /\ remaining'[c] = remaining[c]
               /\ wire'[c] = wire[c]
               /\ pc'[c] = "sendfile"
               /\ lastCall'[c].off = offset[c]
          /\ (pc[c] = "sendfile" /\ lastCall[c].err \in {"EAGAIN", "EINTR"}
                /\ lastCall'[c] # lastCall[c]) =>
               /\ lastCall'[c].off = lastCall[c].off
               /\ lastCall'[c].count = lastCall[c].count]_vars
  /\ [](\A c \in Conns :
          /\ BodyOffsets(c) = Iota(Len(BodyOffsets(c)))
          /\ (retried[c] /\ sfcExit[c] = "drained") =>
               BodyOffsets(c) = Iota(size_[c]))

C7_Witness ==
  \E c \in Conns :
    /\ pc[c] = "file_dtor"
    /\ retried[c]
    /\ errno[c] = "EINTR"
    /\ sfcExit[c] = "drained"
    /\ size_[c] = MaxFileSize
    /\ BodyOffsets(c) = Iota(MaxFileSize)

\* send_file_content has been entered and its locals are still alive.
InSfc(c) ==
  sfcCalls[c] = 1 /\ pc[c] \in {"sendfile", "file_dtor", "shutdown", "close"}

\* C8: throughout send_file_content offset + remaining is the size captured
\* at open, remaining >= 0, every sendfile() call asks for min(remaining,
\* chunk size) bytes, which is at least 1 and at most the chunk size, and
\* the bytes transferred never exceed the size; also for a size that is no
\* multiple of the chunk size, where the last call asks for the rest.
C8_LoopInvariant ==
  \A c \in Conns :
    /\ Len(BodyOffsets(c)) <= fileLen
    /\ InSfc(c) =>
         /\ offset[c] + remaining[c] = size_[c]
         /\ remaining[c] >= 0
         /\ offset[c] >= 0
         /\ Len(BodyOffsets(c)) = offset[c]
         /\ pc[c] = "sendfile" => remaining[c] > 0
         /\ lastCall[c] # NoCall =>
              /\ lastCall[c].count = Min(size_[c] - lastCall[c].off, SEND_CHUNK_SIZE)
              /\ lastCall[c].count >= 1
              /\ lastCall[c].count <= SEND_CHUNK_SIZE
              /\ lastCall[c].off <= offset[c]

C8_Witness ==
  \E c \in Conns :
    /\ InSfc(c)
    /\ size_[c] = MaxFileSize
    /\ size_[c] % SEND_CHUNK_SIZE # 0
    /\ sfcExit[c] = "drained"
    /\ lastCall[c] = [off |-> MaxFileSize - 1, count |-> 1, err |-> "NONE"]
    /\ remaining[c] = 0

\* A sendfile() call of c reports a transient condition.
TransientReport(c) ==
  /\ pc[c] = "sendfile"
  /\ pc'[c] = "sendfile"
  /\ lastCall'[c].err \in {"EAGAIN", "EINTR"}

\* C9 as claimed: the loop of send_file_content always returns (unless the
\* process ends first).
C9_AlwaysReturns ==
  \A c \in Conns : (pc[c] = "sendfile") ~> (pc[c] # "sendfile" \/ ~alive)

\* C9 as amended: send_file_content returns only with remaining = 0, after
\* a reported peer disconnect, or after a reported non-transient error; and
\* the loop returns (or the process ends) unless sendfile() reports
\* transient conditions again and again without end.
C9_ReturnsUnlessRetryingForever ==
  /\ [](\A c \in Conns :
          (InSfc(c) /\ pc[c] # "sendfile") =>
            \/ remaining[c] = 0 /\ sfcExit[c] = "drained" /\ sfcResult[c] = "true"
            \/ fatal[c] = "EPIPE" /\ sfcResult[c] = "true"
            \/ fatal[c] \notin {"NONE", "EPIPE"} /\ sfcResult[c] = "false")
  /\ \A c \in Conns :
       \/ []<><<TransientReport(c)>>_vars
       \/ (pc[c] = "sendfile") ~> (pc[c] # "sendfile" \/ ~alive)

C9_Witness ==
  \E c \in Conns :
    /\ pc[c] = "file_dtor"
    /\ retried[c]
    /\ sfcResult[c] = "false"
    /\ fatal[c] = "EIO"
    /\ remaining[c] = 1

\* C10 as claimed: no connection descriptor is released without having been
\* shut down first.
C10_ShutdownBeforeEveryClose ==
  \A c \in Conns : connCloses[c] >= 1 => shutdowns[c] = 1

\* C10 as amended: on every path on which a request was received
\* (Unsupported, HEAD, GET, error) the connection is shut down once and then
\* released; on the Empty path (recv() returned <= 0) it is released
\* without a shutdown.
C10_ShutdownUnlessEmpty ==
  \A c \in Conns :
    /\ shutdowns[c] <= 1
    /\ connCloses[c] >= 1 =>
         shutdowns[c] = (IF request[c] = <<>> THEN 0 ELSE 1)
    /\ (pc[c] = "done" /\ request[c] # <<>>) => shutdowns[c] = 1

C10_Witness ==
  \E c \in Conns :
    /\ pc[c] = "done"
    /\ fileObj[c] = "open_failed"
    /\ shutdowns[c] = 1
    /\ connCloses[c] = 1

\* main() is in its accept loop: startup has succeeded.
Serving == mainPc \in {"accept", "create", "detach"}

\* C11 as claimed: once startup has succeeded no step (a failed accept(), a
\* failed pthread_create(), a failure of a worker's recv(), open(), send() or
\* sendfile()) ends the process or takes main() out of its accept loop.
C11_ServingNeverEnds ==
  [][(alive /\ Serving) => (alive' /\ Serving')]_vars

\* The per-request File constructor threw: open() or fstat() failed.
OpenThrew(c) == fileObj[c] \in {"open_failed", "fstat_failed"}

\* C12: when the per-request open() or fstat() of a recognised GET or HEAD
\* fails, the one block the worker hands to send() is the 500 response
\* (Content-Type: text/plain, body "500 Internal Server Error\n"); no 200
\* status line and no file byte is ever sent on that connection,
\* send_file_content is not invoked, and the connection is then closed.
C12_OpenFailureGets500 ==
  \A c \in Conns :
    OpenThrew(c) =>
      /\ IsGetRequest(c) \/ IsHeadRequest(c)
      /\ pc[c] \in {"send500", "shutdown", "close", "done"}
      /\ sends[c] \in
           (IF pc[c] = "send500" THEN {<<>>}
            ELSE { <<[resp |-> Golden500, result |-> r]>> :
                     r \in {"all", "part", "fail"} })
      /\ \A i \in 1..Len(wire[c]) : wire[c][i].resp[1] # "HTTP/1.1 200 OK"
      /\ BodyOffsets(c) = <<>>
      /\ sfcCalls[c] = 0
      /\ pc[c] = "done" => connCloses[c] = 1

C12_Witness ==
  \E c \in Conns :
    /\ pc[c] = "done"
    /\ fileObj[c] = "fstat_failed"
    /\ IsGetRequest(c)
    /\ wire[c] = <<RespItem(Golden500, "all")>>
    /\ connCloses[c] = 1

\* The worker of c took the early exit: recv() returned zero or less.
EmptyRead(c) ==
  pc[c] = "close_empty" \/ (pc[c] = "done" /\ shutdowns[c] = 0)

\* C13: when the one recv() returns zero or a negative result, nothing is
\* ever handed to send() or put on the connection, the served file is not
\* opened, and the connection is closed.
C13_EmptyReadSilentClose ==
  \A c \in Conns :
    /\ EmptyRead(c) =>
         /\ request[c] = <<>>
         /\ sends[c] = <<>>
         /\ wire[c] = <<>>
         /\ fileObj[c] = "none"
         /\ sfcCalls[c] = 0
         /\ pc[c] = "done" => connCloses[c] = 1
    /\ (request[c] = <<>> /\ pc[c] \notin {"unborn", "recv"}) => EmptyRead(c)

C13_Witness ==
  \E c \in Conns :
    /\ pc[c] = "done"
    /\ request[c] = <<>>
    /\ wire[c] = <<>>
    /\ connCloses[c] = 1

\* C14: the acceptor never waits for a worker.  Whatever the workers do, even
\* when none of them ever takes a step, main() goes from pthread_create()
\* through pthread_detach() back to accept() and accepts every peer that
\* connects (unless the process ends); the step that follows the hand-over
\* is enabled whatever the worker's position; and a worker that has not
\* finished can always take its next step, whatever the other workers and
\* main() are doing.
C14_AcceptorNeverWaits ==
  /\ <>(~alive \/ (accepted = env.clients /\ mainPc = "accept"))
  /\ [](alive =>
          /\ mainPc = "create" => ENABLED MainCreate
          /\ mainPc = "detach" => ENABLED MainDetach
          /\ (mainPc = "accept" /\ accepted < env.clients) => ENABLED MainAccept
          /\ \A c \in Conns :
               pc[c] \notin {"unborn", "done"} => ENABLED Worker(c))
  /\ [][\A c \in Conns :
          (pc[c] = "unborn" /\ pc'[c] # "unborn") =>
            (pc'[c] = "recv" /\ mainPc' = "detach")]_vars

C14_Witness ==
  /\ alive
  /\ mainPc = "accept"
  /\ accepted = MaxConns
  /\ pc[1] = "recv"
  /\ pc[2] = "done"
  /\ BodyOffsets(2) = Iota(MaxFileSize)
  /\ fileLen = MaxFileSize

\* main() has not reached its accept loop.
StartingUp == mainPc \in {"signal", "open_file", "socket", "bind", "listen"}

\* C15: startup is ordered and fail-fast.  The listening socket exists only
\* after the served file was opened, and a connection is accepted or a
\* worker started only with the file open and the socket bound and
\* listening; when opening the file, creating, binding or listening fails,
\* that very step ends the process, with no connection accepted and no
\* worker started; and a process that ended takes no further step.
C15_StartupFailFast ==
  /\ [](/\ listenFd # "none" => mainFile = "open"
        /\ Serving => (mainFile = "open" /\ listenFd = "listening")
        /\ StartingUp => (accepted = 0 /\ \A c \in Conns : pc[c] = "unborn")
        /\ (accepted > 0 \/ \E c \in Conns : pc[c] # "unborn") =>
             (mainFile = "open" /\ listenFd \in {"listening", "closed"}))
  /\ [][/\ (StartingUp /\ ~StartingUp' /\ mainPc' # "accept") =>
              (/\ mainPc' = "aborted" /\ ~alive'
               /\ accepted' = 0
               /\ \A c \in Conns : pc'[c] = "unborn"
               /\ listenFd' \in {"none", "closed"})
        /\ ~alive => FALSE]_vars

C15_Witness ==
  /\ mainPc = "aborted"
  /\ ~alive
  /\ mainFile = "open"
  /\ listenFd = "closed"
  /\ accepted = 0
  /\ \A c \in Conns : pc[c] = "unborn"

\* C16 as claimed: once a send() of a response block has reported an error,
\* the worker makes no further send and no transfer on that connection: in
\* particular send_file_content is not invoked after the send of the 200
\* block failed.
C16_NothingAfterFailedSend ==
  \A c \in Conns :
    \A i \in 1..Len(sends[c]) :
      sends[c][i].result = "fail" =>
        /\ i = Len(sends[c])
        /\ sfcCalls[c] = 0
        /\ lastCall[c] = NoCall
        /\ BodyOffsets(c) = <<>>

\* C17 as claimed: a file byte is on the connection only after the whole 200
\* block, through its blank line, was accepted: after a send() that took
\* only part of the block no file byte follows.
C17_BodyOnlyAfterWholeHeader ==
  \A c \in Conns :
    BodyOffsets(c) # <<>> =>
      /\ Len(wire[c]) > Len(BodyOffsets(c))
      /\ wire[c][1] = RespItem(Golden200(size_[c]), "all")

\* The class of the received bytes, by their leading bytes alone.
Classify(bytes) ==
  IF StartsWith(bytes, <<"H", "E", "A", "D", " ">>) THEN "HEAD"
  ELSE IF StartsWith(bytes, <<"G", "E", "T", " ">>) THEN "GET"
  ELSE "Unsupported"

\* The blocks a worker may hand to send() for a request of class k.
ResponsesFor(k) ==
  IF k = "Unsupported" THEN {Golden405} ELSE {Golden200(fileLen), Golden500}

\* C18: the request is what one recv() of at most BUFFER_SIZE - 1 bytes
\* returned, and it is never replaced by a second receive; it is HEAD iff it
\* begins with "HEAD ", GET iff it begins with "GET ", Unsupported otherwise
\* (also when it is shorter than the prefix, or has the prefix further in);
\* the path taken and every block handed to send() depend on that class only,
\* not on any byte after the prefix.
C18_RecognitionByPrefix ==
  /\ [](\A c \in Conns :
          /\ Len(request[c]) <= BUFFER_SIZE - 1
          /\ \E msg \in env.messages : request[c] = <<>> \/ request[c] = Take(msg, BUFFER_SIZE - 1)
          /\ request[c] # <<>> =>
               LET k == Classify(request[c])
               IN /\ is_head[c] = (k = "HEAD")
                  /\ (k = "Unsupported") =
                       (pc[c] \in {"send405", "shutdown405", "close405"}
                          \/ (pc[c] = "done" /\ fileObj[c] = "none"))
                  /\ (k = "HEAD") => sfcCalls[c] = 0
                  /\ (k = "GET" /\ pc[c] = "done" /\ Opened(c)) => sfcCalls[c] = 1
                  /\ \A i \in 1..Len(sends[c]) :
                       sends[c][i].resp \in ResponsesFor(k))
  /\ [][\A c \in Conns :
          /\ request[c] # <<>> => request'[c] = request[c]
          /\ request'[c] # request[c] => (pc[c] = "recv" /\ pc'[c] # "recv")]_vars

C18_Witness ==
  \E c \in Conns :
    /\ pc[c] = "done"
    /\ request[c] = <<"G", "E", "T", " ", "/", "a">>
    /\ sends[c] = <<[resp |-> Golden200(fileLen), result |-> "all"]>>
    /\ sfcCalls[c] = 1

\* Positions of the kinds of line in a response block.
TypeLines(resp) ==
  { i \in 1..Len(resp) :
      resp[i] \in {"Content-Type: text/plain",
                   "Content-Type: application/octet-stream"} }
AllowLines(resp) == { i \in 1..Len(resp) : resp[i] = "Allow: GET, HEAD" }
CloseLines(resp) == { i \in 1..Len(resp) : resp[i] = "Connection: close" }

\* Every position of I lies before every position of J.
Before(I, J) == \A i \in I : \A j \in J : i < j

\* The framing that does not depend on the order of the optional lines: the
\* status line first, one Content-Type, one Content-Length, Allow for 405
\* only, then Connection: close, the blank line, and the body if any.
Framed(resp, bodyOf, lengthOf) ==
  /\ resp[1] \in {"HTTP/1.1 200 OK", "HTTP/1.1 405 Method Not Allowed",
                   "HTTP/1.1 500 Internal Server Error"}
  /\ Cardinality(TypeLines(resp)) = 1
  /\ Cardinality(ContentLengths(resp)) = 1
  /\ Cardinality(AllowLines(resp)) =
       (IF resp[1] = "HTTP/1.1 405 Method Not Allowed" THEN 1 ELSE 0)
  /\ \E k \in CloseLines(resp) :
       /\ CloseLines(resp) = {k}
       /\ TypeLines(resp) \cup AllowLines(resp) \cup ContentLengths(resp) = 2..(k - 1)
       /\ resp[k + 1] = ""
       /\ SubSeq(resp, k + 2, Len(resp)) =
            (IF bodyOf = "" THEN <<>> ELSE <<bodyOf>>)
  /\ \A i \in ContentLengths(resp) :
       resp[i] = "Content-Length: " \o ToString(lengthOf)

\* What send_http_response got as body, and the length it must announce.
BodyOf(resp) ==
  IF resp[1] = "HTTP/1.1 405 Method Not Allowed" THEN BODY_405
  ELSE IF resp[1] = "HTTP/1.1 500 Internal Server Error" THEN BODY_500
  ELSE ""
LengthOf(resp) ==
  IF resp[1] = "HTTP/1.1 200 OK" THEN fileLen ELSE Len(BodyOf(resp))

\* Content-Type, then Allow, then Content-Length.
SpecOrder(resp) ==
  /\ Before(TypeLines(resp), AllowLines(resp))
  /\ Before(TypeLines(resp), ContentLengths(resp))
  /\ Before(AllowLines(resp), ContentLengths(resp))

CreateFailed(c) == mainPc = "aborted" /\ c <= accepted /\ pc[c] = "unborn"

\* C20: an accepted connection descriptor has one owner.  Once its worker
\* exists main() never closes it, and the worker closes it once; when
\* pthread_create() fails no worker exists for it and main() closes it once;
\* it is never closed twice nor by both threads, and a step of main() never
\* changes what belongs to a worker's connection.
C20_DescriptorHandOver ==
  /\ [](\A c \in Conns :
          /\ mainCloses[c] + connCloses[c] <= 1
          /\ pc[c] # "unborn" => (mainCloses[c] = 0 /\ c <= accepted)
          /\ pc[c] = "done" => connCloses[c] = 1
          /\ pc[c] = "unborn" => connCloses[c] = 0
          /\ CreateFailed(c) => (mainCloses[c] = 1 /\ connCloses[c] = 0)
          /\ mainCloses[c] = 1 => CreateFailed(c))
  /\ [][\A c \in Conns :
          /\ pc[c] # "unborn" =>
               /\ pc'[c] # "unborn"
               /\ mainCloses'[c] = mainCloses[c]
               /\ mainPc' # mainPc =>
                    <<connCloses'[c], shutdowns'[c], sends'[c], wire'[c]>> =
                      <<connCloses[c], shutdowns[c], sends[c], wire[c]>>
          /\ connCloses'[c] # connCloses[c] => pc[c] \notin {"unborn", "done"}]_vars

C20_Witness ==
  \E c, d \in Conns :
    /\ env.clients = 1 /\ c = 1
    /\ CreateFailed(c)
    /\ mainCloses[c] = 1
    /\ connCloses[c] = 0
    /\ d # c /\ mainCloses[d] = 0

\* The status lines among the blocks connection c's worker handed to send().
StatusLines(c) == [i \in 1..Len(sends[c]) |-> sends[c][i].resp[1]]

\* C21: a worker starts at most one response.  Over handle_client at most
\* one block, so at most one status line, is handed to send(); the 500 block
\* is never sent on a connection on which the 200 block or a file byte was
\* sent; and once send_file_content has returned false nothing more is sent
\* or transferred, and the connection is shut down and closed.
C21_AtMostOneResponse ==
  /\ [](\A c \in Conns :
          /\ Len(StatusLines(c)) <= 1
          /\ Len(SelectSeq(wire[c], LAMBDA it : it.k = "resp")) <= 1
          /\ (\E i \in 1..Len(sends[c]) : sends[c][i].resp = Golden500) =>
               /\ BodyOffsets(c) = <<>>
               /\ sfcCalls[c] = 0
               /\ \A i \in 1..Len(sends[c]) : sends[c][i].resp[1] # "HTTP/1.1 200 OK"
          /\ sfcResult[c] = "false" =>
               /\ pc[c] \in {"file_dtor", "shutdown", "close", "done"}
               /\ StatusLines(c) = <<"HTTP/1.1 200 OK">>
               /\ pc[c] = "done" => (shutdowns[c] = 1 /\ connCloses[c] = 1))
  /\ [][\A c \in Conns :
          sfcResult[c] = "false" =>
            (sends'[c] = sends[c] /\ wire'[c] = wire[c]
               /\ sfcCalls'[c] = sfcCalls[c])]_vars

C21_Witness ==
  \E c \in Conns :
    /\ pc[c] = "done"
    /\ sfcResult[c] = "false"
    /\ StatusLines(c) = <<"HTTP/1.1 200 OK">>
    /\ Len(wire[c]) = 2
    /\ BodyOffsets(c) = <<0>>
    /\ connCloses[c] = 1

\* C22 as claimed: a sendfile() call that makes no progress and reports no
\* error of its own (end of file reached with remaining > 0, the file
\* having shrunk since open) is the last one: send_file_content returns
\* after it, whatever errno an earlier call on the thread left.
C22_EofAttemptReturns ==
  [][\A c \in Conns :
       (pc[c] = "sendfile" /\ lastCall'[c] # lastCall[c]
          /\ lastCall'[c].err = "EOF") =>
         (pc'[c] # "sendfile" /\ sfcResult'[c] \in {"true", "false"})]_vars

====
